---- MODULE Spec2Model ----
(***************************************************************************)
(* The RabbitMQ transport of typhon (package rabbit, rabbitTransport):     *)
(* the connection supervisor (run), the reply consumer (listenReplies,     *)
(* handleRspDelivery), the send path (Send) and the listen path (Listen,   *)
(* handleReqDelivery, killListeners, StopListening), the respond path      *)
(* (Respond), and above the transport the endpoint dispatcher of package   *)
(* server (Endpoint.HandleRequest, enrichError).                           *)
(*                                                                         *)
(* Every goroutine is a process with a program counter.  A step is one     *)
(* critical section or one select of the Go code.  Timers that the caller  *)
(* supplies (Send) may fire at any moment; the fixed 60 s and 10 s timers  *)
(* fire only while their select is blocked on every other case.            *)
(* The broker client (RabbitConnection) is outside the transport: a handle *)
(* is "new" until its Init signal fires, "up" while its session is usable, *)
(* "lost" once the broker session is gone and "closed" after Close().      *)
(***************************************************************************)
EXTENDS Integers, Sequences, FiniteSets, TLC

\* ------------------------------------------------------------------ bounds
NSenders == 2
NIds == 1
MaxConns == 2
MaxRsp == 2
NListen == 2
MaxReq == 2
ChanCap == 1
NResp == 2

Senders == 1..NSenders
Handles == 1..MaxConns
RspTasks == 1..MaxRsp
Calls == 1..NListen
ReqTasks == 1..MaxReq
Responders == 1..NResp
Services == {"svcA", "svcB"}
Bodies == <<"pong", "ping", "pang">>
RspEncodings == {"response", "request"}
ReqEncodings == {"request", "garbage"}

DirectReplyQueue == "amq.rabbitmq.reply-to"

\* uuid.NewV4(): an id no caller supplies and no other Send generates.
NewV4(s) == NIds + s
AllIds == 1..(NIds + NSenders)

VARIABLES
    supPc,        \* position of the run-loop goroutine started by run()
    tombDying,    \* t.tomb is dying (Kill called, or the run loop returned an error)
    conn,         \* t.conn: the current handle (0 before run())
    hstate,       \* state of every RabbitConnection ever created
    rq,           \* per handle: reply queue "none" / "declared" / "consuming"
    connReady,    \* t.connReady: the current readiness broadcast
    fired,        \* the readiness broadcasts that have been closed
    killed,       \* ts of killListeners: the listener tombs the run loop waits for
    crashed,      \* "no", "exit" (os.Exit(1)) or "panic" (unrecovered panic)
    inflightReqs, \* t.inflightReqs: id -> the Send whose rspChan is registered (0: none)
    spc,          \* position of every Send
    sid,          \* req.Id() of every Send (0: not assigned)
    sReady,       \* the broadcast t.Ready() returned to the Send
    timerFired,   \* the Send's timer has fired
    rspChan,      \* the Send's rspChan: a buffer of capacity 1
    result,       \* what Send returned
    rtask,        \* the handleRspDelivery goroutines
    listeners,    \* t.listeners: service -> the Listen call whose tomb is registered (0: none)
    lpc,          \* position of every Listen call (the caller)
    lsvc,         \* the service of every Listen call
    lres,         \* what Listen returned
    ltask,        \* position of every listener goroutine (tm.Go)
    lReady,       \* the broadcast t.Ready() returned to the listener goroutine
    lconn,        \* the handle the listener consumes from (0: none)
    tmDying,      \* the listener's tomb tm is dying
    rc,           \* the caller-owned channel of every Listen call: its buffer
    rcClosed,     \* the caller-owned channel has been closed
    qtask,        \* the handleReqDelivery goroutines
    rcall,        \* every Respond call: position, reply-to of the request, result
    ecall         \* the last Endpoint.HandleRequest call: its inputs and what it returned

supVars == <<supPc, tombDying, conn, hstate, rq, connReady, fired, killed, crashed>>
sendVars == <<inflightReqs, spc, sid, sReady, timerFired, rspChan, result, rtask>>
listenVars == <<listeners, lpc, lsvc, lres, ltask, lReady, lconn, tmDying, rc, rcClosed, qtask>>
vars == <<supVars, sendVars, listenVars, rcall, ecall>>

\* ------------------------------------------------------------------ messages
\* amqp.Delivery, as far as the transport reads it
Delivery(corr, enc, body, replyTo) ==
    [CorrelationId |-> corr, ContentEncoding |-> enc, Body |-> body, ReplyTo |-> replyTo]

\* The deliveries the k-th handleRspDelivery goroutine may be given.  Bodies are
\* opaque to the transport, so the k-th delivery always carries the k-th body.
RspDeliveries(k) == {Delivery(c, e, Bodies[k], "") : c \in AllIds, e \in RspEncodings}

\* faulty variant: SetPayload forgotten
deliveryToMessage_NoPayload(d) ==
    [id |-> d.CorrelationId,
     headers |-> ("Content-Encoding" :> d.ContentEncoding) @@ ("X-Rabbit-ReplyTo" :> d.ReplyTo),
     payload |-> ""]

\* deliveryToMessage: id, headers (with X-Rabbit-ReplyTo), payload
deliveryToMessage(d) ==
    [id |-> d.CorrelationId,
     headers |-> ("Content-Encoding" :> d.ContentEncoding) @@ ("X-Rabbit-ReplyTo" :> d.ReplyTo),
     payload |-> d.Body]

\* The deliveries the k-th handleReqDelivery goroutine may be given.
ReqDeliveries(k) == {Delivery(1, e, Bodies[k], DirectReplyQueue) : e \in ReqEncodings}

NoDelivery == Delivery(0, "", "", "")
FreeTask == [st |-> "free", d |-> NoDelivery, ch |-> 0]
NoResult == [err |-> "none", rsp |-> <<>>]

\* a Respond call: its position, the X-Rabbit-ReplyTo header of its request, the
\* broadcast t.Ready() returned, the error it returned, and the Publish it made
\* (routing key and handle; h = 0 while it made none)
NoPublish == [key |-> "", h |-> 0]
NoRespond == [pc |-> "idle", replyTo |-> "", ready |-> 0, err |-> "none", pub |-> NoPublish]

\* An error value: nil, a plain error (typed = FALSE) or an *errors.Error with its
\* code, message and the service and endpoint of its PrivateContext.
Err(typed, code, message, service, endpoint) ==
    [typed |-> typed, code |-> code, message |-> message,
     service |-> service, endpoint |-> endpoint]
Nil == Err(FALSE, "nil", "", "", "")

\* no HandleRequest call yet
NoCall ==
    [e |-> [Name |-> "", Request |-> "nil"], req |-> [service |-> "", payload |-> <<>>],
     h |-> [rsp |-> "nil", err |-> Nil],
     out |-> [called |-> FALSE, body |-> <<>>, rsp |-> "nil", err |-> Nil]]

\* ------------------------------------------------------------------ broker
\* RabbitConnection.Publish: on a usable session it succeeds or the broker refuses
\* it; on a handle whose session is lost or closed, or that is not yet
\* initialised, it returns the connection's error
PublishOutcomes(h) ==
    IF h \in Handles /\ hstate[h] = "up" THEN {"nil", "ErrPublish"}
    ELSE IF h \in Handles /\ hstate[h] = "new" THEN {"ErrNotInitialised"}
    ELSE {"ErrClosed"}

\* a delivery stream of handle h is open while the session of h is usable
StreamOpen(h) == h \in Handles /\ hstate[h] = "up"

\* RabbitConnection.Consume: succeeds or fails on a usable session, fails otherwise
ConsumeOutcomes(h) ==
    IF h \in Handles /\ hstate[h] = "up" THEN {"nil", "ErrConsume"} ELSE {"ErrConsume"}

\* ------------------------------------------------------------------ Init
Init ==
    /\ supPc = "idle"
    /\ tombDying = FALSE
    /\ conn = 0
    /\ hstate = [h \in Handles |-> "none"]
    /\ rq = [h \in Handles |-> "none"]
    /\ connReady = 1
    /\ fired = {}
    /\ killed = {}
    /\ crashed = "no"
    /\ inflightReqs = [i \in AllIds |-> 0]
    /\ spc = [s \in Senders |-> "idle"]
    /\ sid = [s \in Senders |-> 0]
    /\ sReady = [s \in Senders |-> 0]
    /\ timerFired = [s \in Senders |-> FALSE]
    /\ rspChan = [s \in Senders |-> <<>>]
    /\ result = [s \in Senders |-> NoResult]
    /\ rtask = [k \in RspTasks |-> FreeTask]
    /\ listeners = [v \in Services |-> 0]
    /\ lpc = [c \in Calls |-> "idle"]
    /\ lsvc = [c \in Calls |-> "svcA"]
    /\ lres = [c \in Calls |-> "none"]
    /\ ltask = [c \in Calls |-> "none"]
    /\ lReady = [c \in Calls |-> 0]
    /\ lconn = [c \in Calls |-> 0]
    /\ tmDying = [c \in Calls |-> FALSE]
    /\ rc = [c \in Calls |-> <<>>]
    /\ rcClosed = [c \in Calls |-> FALSE]
    /\ qtask = [k \in ReqTasks |-> FreeTask]
    /\ rcall = [r \in Responders |-> NoRespond]
    /\ ecall = NoCall

Running == crashed = "no"

\* ------------------------------------------------------------------ run()
\* t.runOnce.Do(t.run): the first Ready()/connection() installs the first handle
\* (connReady is not yet closed, so initConn keeps it) and starts the run loop.
runOnce ==
    IF supPc = "idle"
    THEN /\ supPc' = "select"
         /\ conn' = 1
         /\ hstate' = [hstate EXCEPT ![1] = "new"]
    ELSE UNCHANGED <<supPc, conn, hstate>>

\* Ready() called by a user of the transport
Ready ==
    /\ Running
    /\ supPc = "idle"
    /\ runOnce
    /\ UNCHANGED <<tombDying, rq, connReady, fired, killed, crashed, sendVars, listenVars>>
    /\ UNCHANGED <<rcall, ecall>>

\* t.tomb.Kill: teardown is requested
Teardown ==
    /\ Running
    /\ ~tombDying
    /\ tombDying' = TRUE
    /\ UNCHANGED <<supPc, conn, hstate, rq, connReady, fired, killed, crashed, sendVars, listenVars>>
    /\ UNCHANGED <<rcall, ecall>>

\* the handle's Init signal fires
InitDone ==
    /\ Running
    /\ conn \in Handles
    /\ hstate[conn] = "new"
    /\ hstate' = [hstate EXCEPT ![conn] = "up"]
    /\ UNCHANGED <<supPc, tombDying, conn, rq, connReady, fired, killed, crashed, sendVars, listenVars>>
    /\ UNCHANGED <<rcall, ecall>>

\* the broker session of the current handle is lost
SessionLost ==
    /\ Running
    /\ conn \in Handles
    /\ conn < MaxConns
    /\ hstate[conn] = "up"
    /\ hstate' = [hstate EXCEPT ![conn] = "lost"]
    /\ UNCHANGED <<supPc, tombDying, conn, rq, connReady, fired, killed, crashed, sendVars, listenVars>>
    /\ UNCHANGED <<rcall, ecall>>

\* runLoop select, case <-t.tomb.Dying(): return nil
SupSelectDying ==
    /\ Running
    /\ supPc = "select"
    /\ tombDying
    /\ supPc' = "kill"
    /\ UNCHANGED <<tombDying, conn, hstate, rq, connReady, fired, killed, crashed, sendVars, listenVars>>
    /\ UNCHANGED <<rcall, ecall>>

\* faulty variant: readiness is announced as soon as the handle is initialised
SupSelectInit_Fires ==
    /\ Running
    /\ supPc = "select"
    /\ hstate[conn] # "new"
    /\ supPc' = "lr_declare"
    /\ fired' = fired \cup {connReady}
    /\ UNCHANGED <<tombDying, conn, hstate, rq, connReady, killed, crashed, sendVars, listenVars>>
    /\ UNCHANGED <<rcall, ecall>>

\* runLoop select, case <-conn.Init(): enter listenReplies
SupSelectInit ==
    /\ Running
    /\ supPc = "select"
    /\ hstate[conn] # "new"
    /\ supPc' = "lr_declare"
    /\ UNCHANGED <<tombDying, conn, hstate, rq, connReady, fired, killed, crashed, sendVars, listenVars>>
    /\ UNCHANGED <<rcall, ecall>>

\* runLoop select, case <-time.After(connectTimeout): return ErrCouldntConnect
SupSelectTimeout ==
    /\ Running
    /\ supPc = "select"
    /\ hstate[conn] = "new"
    /\ ~tombDying
    /\ supPc' = "kill"
    /\ UNCHANGED <<tombDying, conn, hstate, rq, connReady, fired, killed, crashed, sendVars, listenVars>>
    /\ UNCHANGED <<rcall, ecall>>

\* listenReplies: DeclareReplyQueue; failure is os.Exit(1)
SupDeclare ==
    /\ Running
    /\ supPc = "lr_declare"
    /\ \E ok \in (IF StreamOpen(conn) THEN BOOLEAN ELSE {FALSE}) :
         IF ok
         THEN /\ rq' = [rq EXCEPT ![conn] = "declared"]
              /\ supPc' = "lr_consume"
              /\ UNCHANGED crashed
         ELSE /\ crashed' = "exit"
              /\ UNCHANGED <<rq, supPc>>
    /\ UNCHANGED <<tombDying, conn, hstate, connReady, fired, killed, sendVars, listenVars>>
    /\ UNCHANGED <<rcall, ecall>>

\* listenReplies: ConsumeQueue; failure is os.Exit(1)
SupConsume ==
    /\ Running
    /\ supPc = "lr_consume"
    /\ \E ok \in (IF StreamOpen(conn) THEN BOOLEAN ELSE {FALSE}) :
         IF ok
         THEN /\ rq' = [rq EXCEPT ![conn] = "consuming"]
              /\ supPc' = "lr_fire"
              /\ UNCHANGED crashed
         ELSE /\ crashed' = "exit"
              /\ UNCHANGED <<rq, supPc>>
    /\ UNCHANGED <<tombDying, conn, hstate, connReady, fired, killed, sendVars, listenVars>>
    /\ UNCHANGED <<rcall, ecall>>

\* listenReplies: readyC := t.connReady; close(readyC) unless already closed
SupFire ==
    /\ Running
    /\ supPc = "lr_fire"
    /\ IF connReady \in fired THEN UNCHANGED fired ELSE fired' = fired \cup {connReady}
    /\ supPc' = "serve"
    /\ UNCHANGED <<tombDying, conn, hstate, rq, connReady, killed, crashed, sendVars, listenVars>>
    /\ UNCHANGED <<rcall, ecall>>

\* listenReplies loop, case delivery := <-deliveries: go t.handleRspDelivery(delivery)
SupRecvDelivery(k, d) ==
    /\ Running
    /\ supPc = "serve"
    /\ StreamOpen(conn)
    /\ rtask[k].st = "free"
    /\ \A j \in RspTasks : j < k => rtask[j].st # "free"
    /\ rtask' = [rtask EXCEPT ![k] = [st |-> "run", d |-> d, ch |-> 0]]
    /\ UNCHANGED <<supVars, inflightReqs, spc, sid, sReady, timerFired, rspChan, result, listenVars>>
    /\ UNCHANGED <<rcall, ecall>>

\* listenReplies loop, deliveries closed: return ErrDeliveriesClosed
SupDeliveriesClosed ==
    /\ Running
    /\ supPc = "serve"
    /\ ~StreamOpen(conn)
    /\ supPc' = "after_lr"
    /\ UNCHANGED <<tombDying, conn, hstate, rq, connReady, fired, killed, crashed, sendVars, listenVars>>
    /\ UNCHANGED <<rcall, ecall>>

\* listenReplies loop, case <-t.tomb.Dying(): return tomb.ErrDying
SupServeDying ==
    /\ Running
    /\ supPc = "serve"
    /\ tombDying
    /\ supPc' = "after_lr"
    /\ UNCHANGED <<tombDying, conn, hstate, rq, connReady, fired, killed, crashed, sendVars, listenVars>>
    /\ UNCHANGED <<rcall, ecall>>

\* after listenReplies, case <-t.tomb.Dying(): return nil
SupAfterDying ==
    /\ Running
    /\ supPc = "after_lr"
    /\ tombDying
    /\ supPc' = "kill"
    /\ UNCHANGED <<tombDying, conn, hstate, rq, connReady, fired, killed, crashed, sendVars, listenVars>>
    /\ UNCHANGED <<rcall, ecall>>

\* faulty variant: the reconnect path kills the listeners as the exit path does
SupReconnectClose_KillsListeners ==
    /\ Running
    /\ supPc = "after_lr"
    /\ ~tombDying
    /\ hstate' = [hstate EXCEPT ![conn] = "closed"]
    /\ tmDying' = [c \in Calls |-> tmDying[c] \/ (\E v \in Services : listeners[v] = c)]
    /\ supPc' = "reinit"
    /\ UNCHANGED <<tombDying, conn, rq, connReady, fired, killed, crashed, sendVars,
                   listeners, lpc, lsvc, lres, ltask, lReady, lconn, rc, rcClosed, qtask>>
    /\ UNCHANGED <<rcall, ecall>>

\* after listenReplies, default: conn.Close()
SupReconnectClose ==
    /\ Running
    /\ supPc = "after_lr"
    /\ ~tombDying
    /\ hstate' = [hstate EXCEPT ![conn] = "closed"]
    /\ supPc' = "reinit"
    /\ UNCHANGED <<tombDying, conn, rq, connReady, fired, killed, crashed, sendVars, listenVars>>
    /\ UNCHANGED <<rcall, ecall>>

\* faulty variant: initConn never replaces the broadcast
initConn_KeepsBroadcast ==
    /\ Running
    /\ supPc = "reinit"
    /\ conn < MaxConns
    /\ conn' = conn + 1
    /\ hstate' = [hstate EXCEPT ![conn + 1] = "new"]
    /\ supPc' = "select"
    /\ UNCHANGED <<tombDying, rq, connReady, fired, killed, crashed, sendVars, listenVars>>
    /\ UNCHANGED <<rcall, ecall>>

\* conn = initConn(): a fresh handle; connReady is swapped only if already closed
initConn ==
    /\ Running
    /\ supPc = "reinit"
    /\ conn < MaxConns
    /\ conn' = conn + 1
    /\ hstate' = [hstate EXCEPT ![conn + 1] = "new"]
    /\ connReady' = IF connReady \in fired THEN connReady + 1 ELSE connReady
    /\ supPc' = "select"
    /\ UNCHANGED <<tombDying, rq, fired, killed, crashed, sendVars, listenVars>>
    /\ UNCHANGED <<rcall, ecall>>

\* ------------------------------------------------------------------ Send
\* faulty variant: Send returns without its deferred delete
SendReturn_NoDelete(s, err, rsp) ==
    /\ UNCHANGED inflightReqs
    /\ result' = [result EXCEPT ![s] = [err |-> err, rsp |-> rsp]]
    /\ spc' = [spc EXCEPT ![s] = "done"]
    /\ timerFired' = [timerFired EXCEPT ![s] = FALSE]

\* The deferred cleanup of Send, then its return: delete(t.inflightReqs, rspQueue)
SendReturn(s, err, rsp) ==
    /\ inflightReqs' = [inflightReqs EXCEPT ![sid[s]] = 0]
    /\ result' = [result EXCEPT ![s] = [err |-> err, rsp |-> rsp]]
    /\ spc' = [spc EXCEPT ![s] = "done"]
    /\ timerFired' = [timerFired EXCEPT ![s] = FALSE]

\* Send, uuid.NewV4() fails for a request without id: return nil, err
SendUuidError(s) ==
    /\ Running
    /\ spc[s] = "idle"
    /\ result' = [result EXCEPT ![s] = [err |-> "ErrUuid", rsp |-> <<>>]]
    /\ spc' = [spc EXCEPT ![s] = "done"]
    /\ UNCHANGED <<supVars, inflightReqs, sid, sReady, timerFired, rspChan, rtask, listenVars>>
    /\ UNCHANGED <<rcall, ecall>>

\* Send up to the end of its critical section on inflightReqs: assign the id,
\* register rspChan
SendRegister(s, id) ==
    /\ Running
    /\ spc[s] = "idle"
    /\ LET rspQueue == IF id = 0 THEN NewV4(s) ELSE id
       IN /\ sid' = [sid EXCEPT ![s] = rspQueue]
          /\ inflightReqs' = [inflightReqs EXCEPT ![rspQueue] = s]
    /\ spc' = [spc EXCEPT ![s] = "registered"]
    /\ UNCHANGED <<supVars, sReady, timerFired, rspChan, result, rtask, listenVars>>
    /\ UNCHANGED <<rcall, ecall>>

\* Send reaches t.Ready() as the first user of the transport: runOnce.Do(t.run)
SendRunOnce(s) ==
    /\ Running
    /\ spc[s] = "registered"
    /\ supPc = "idle"
    /\ runOnce
    /\ UNCHANGED <<tombDying, rq, connReady, fired, killed, crashed, sendVars, listenVars>>
    /\ UNCHANGED <<rcall, ecall>>

\* Send enters its first select: the timer is running, t.Ready() (the transport
\* has been started) reads the current broadcast under connM.RLock
SendReady(s) ==
    /\ Running
    /\ spc[s] = "registered"
    /\ supPc # "idle"
    /\ sReady' = [sReady EXCEPT ![s] = connReady]
    /\ spc' = [spc EXCEPT ![s] = "wait_ready"]
    /\ UNCHANGED <<supVars, inflightReqs, sid, timerFired, rspChan, result, rtask, listenVars>>
    /\ UNCHANGED <<rcall, ecall>>

\* the timer of Send fires
SendTimerFire(s) ==
    /\ Running
    /\ spc[s] \in {"wait_ready", "wait_rsp"}
    /\ ~timerFired[s]
    /\ timerFired' = [timerFired EXCEPT ![s] = TRUE]
    /\ UNCHANGED <<supVars, inflightReqs, spc, sid, sReady, rspChan, result, rtask, listenVars>>
    /\ UNCHANGED <<rcall, ecall>>

\* first select, case <-timeout.C: return nil, ErrTimeout
SendReadyTimeout(s) ==
    /\ Running
    /\ spc[s] = "wait_ready"
    /\ timerFired[s]
    /\ SendReturn(s, "ErrTimeout", <<>>)
    /\ UNCHANGED <<supVars, sid, sReady, rspChan, rtask, listenVars>>
    /\ UNCHANGED <<rcall, ecall>>

\* faulty variant: the second wait is given a timer of its own
SendPublish_NewTimer(s) ==
    /\ Running
    /\ spc[s] = "wait_ready"
    /\ sReady[s] \in fired
    /\ \E err \in PublishOutcomes(conn) :
         IF err = "nil"
         THEN /\ spc' = [spc EXCEPT ![s] = "wait_rsp"]
              /\ timerFired' = [timerFired EXCEPT ![s] = FALSE]
              /\ UNCHANGED <<inflightReqs, result>>
         ELSE SendReturn(s, err, <<>>)
    /\ UNCHANGED <<supVars, sid, sReady, rspChan, rtask, listenVars>>
    /\ UNCHANGED <<rcall, ecall>>

\* first select, case <-t.Ready(); then t.connection().Publish(...)
SendPublish(s) ==
    /\ Running
    /\ spc[s] = "wait_ready"
    /\ sReady[s] \in fired
    /\ \E err \in PublishOutcomes(conn) :
         IF err = "nil"
         THEN /\ spc' = [spc EXCEPT ![s] = "wait_rsp"]
              /\ UNCHANGED <<inflightReqs, result, timerFired>>
         ELSE SendReturn(s, err, <<>>)
    /\ UNCHANGED <<supVars, sid, sReady, rspChan, rtask, listenVars>>
    /\ UNCHANGED <<rcall, ecall>>

\* second select, case rsp := <-rspChan: return rsp, nil
SendRecv(s) ==
    /\ Running
    /\ spc[s] = "wait_rsp"
    /\ rspChan[s] # <<>>
    /\ SendReturn(s, "nil", <<Head(rspChan[s])>>)
    /\ rspChan' = [rspChan EXCEPT ![s] = Tail(rspChan[s])]
    /\ UNCHANGED <<supVars, sid, sReady, rtask, listenVars>>
    /\ UNCHANGED <<rcall, ecall>>

\* second select, case <-timeout.C: return nil, ErrTimeout
SendRspTimeout(s) ==
    /\ Running
    /\ spc[s] = "wait_rsp"
    /\ timerFired[s]
    /\ SendReturn(s, "ErrTimeout", <<>>)
    /\ UNCHANGED <<supVars, sid, sReady, rspChan, rtask, listenVars>>
    /\ UNCHANGED <<rcall, ecall>>

\* ------------------------------------------------------------------ handleRspDelivery
\* faulty variant: the entry is looked up but left in inflightReqs
handleRspDelivery_NoDelete(k) ==
    /\ Running
    /\ rtask[k].st = "run"
    /\ LET d == rtask[k].d
           rsp == deliveryToMessage(d)
           ch == inflightReqs[rsp.id]
       IN IF d.ContentEncoding = "response"
          THEN /\ rtask' = [rtask EXCEPT ![k].st = IF ch = 0 THEN "unmatched" ELSE "offer",
                                         ![k].ch = ch]
               /\ UNCHANGED inflightReqs
          ELSE /\ rtask' = [rtask EXCEPT ![k].st = "dropped"]
               /\ UNCHANGED inflightReqs
    /\ UNCHANGED <<supVars, spc, sid, sReady, timerFired, rspChan, result, listenVars>>
    /\ UNCHANGED <<rcall, ecall>>

\* faulty variant: the response is matched to any pending entry, not to the one keyed by its id
handleRspDelivery_AnyEntry(k) ==
    /\ Running
    /\ rtask[k].st = "run"
    /\ LET d == rtask[k].d
           pending == {i \in AllIds : inflightReqs[i] # 0}
           key == IF pending = {} THEN d.CorrelationId ELSE CHOOSE i \in pending : TRUE
           ch == inflightReqs[key]
       IN IF d.ContentEncoding = "response"
          THEN /\ inflightReqs' = [inflightReqs EXCEPT ![key] = 0]
               /\ rtask' = [rtask EXCEPT ![k].st = IF ch = 0 THEN "unmatched" ELSE "offer",
                                         ![k].ch = ch]
          ELSE /\ rtask' = [rtask EXCEPT ![k].st = "dropped"]
               /\ UNCHANGED inflightReqs
    /\ UNCHANGED <<supVars, spc, sid, sReady, timerFired, rspChan, result, listenVars>>
    /\ UNCHANGED <<rcall, ecall>>

\* faulty variant: the Content-Encoding switch is missing
handleRspDelivery_NoEncodingCheck(k) ==
    /\ Running
    /\ rtask[k].st = "run"
    /\ LET rsp == deliveryToMessage(rtask[k].d)
           ch == inflightReqs[rsp.id]
       IN /\ inflightReqs' = [inflightReqs EXCEPT ![rsp.id] = 0]
          /\ rtask' = [rtask EXCEPT ![k].st = IF ch = 0 THEN "unmatched" ELSE "offer",
                                    ![k].ch = ch]
    /\ UNCHANGED <<supVars, spc, sid, sReady, timerFired, rspChan, result, listenVars>>
    /\ UNCHANGED <<rcall, ecall>>

\* the Content-Encoding switch and the critical section on inflightReqs
handleRspDelivery(k) ==
    /\ Running
    /\ rtask[k].st = "run"
    /\ LET d == rtask[k].d
           rsp == deliveryToMessage(d)
           ch == inflightReqs[rsp.id]
       IN IF d.ContentEncoding = "response"
          THEN /\ inflightReqs' = [inflightReqs EXCEPT ![rsp.id] = 0]
               /\ rtask' = [rtask EXCEPT ![k].st = IF ch = 0 THEN "unmatched" ELSE "offer",
                                         ![k].ch = ch]
          ELSE /\ rtask' = [rtask EXCEPT ![k].st = "dropped"]
               /\ UNCHANGED inflightReqs
    /\ UNCHANGED <<supVars, spc, sid, sReady, timerFired, rspChan, result, listenVars>>
    /\ UNCHANGED <<rcall, ecall>>

\* select { case rspChan <- rsp: ; case <-timeout.C: } with chanSendTimeout
handleRspOffer(k) ==
    /\ Running
    /\ rtask[k].st = "offer"
    /\ LET ch == rtask[k].ch
       IN IF Len(rspChan[ch]) < 1
          THEN /\ rspChan' = [rspChan EXCEPT ![ch] = <<deliveryToMessage(rtask[k].d)>>]
               /\ rtask' = [rtask EXCEPT ![k].st = "delivered"]
          ELSE /\ rtask' = [rtask EXCEPT ![k].st = "timedout"]
               /\ UNCHANGED rspChan
    /\ UNCHANGED <<supVars, inflightReqs, spc, sid, sReady, timerFired, result, listenVars>>
    /\ UNCHANGED <<rcall, ecall>>

\* ------------------------------------------------------------------ killListeners
\* the deferred function of the run loop, first half: killListeners() up to RUnlock
killListeners ==
    /\ Running
    /\ supPc = "kill"
    /\ killed' = {c \in Calls : \E v \in Services : listeners[v] = c}
    /\ tmDying' = [c \in Calls |-> tmDying[c] \/ (\E v \in Services : listeners[v] = c)]
    /\ supPc' = "wait"
    /\ UNCHANGED <<tombDying, conn, hstate, rq, connReady, fired, crashed, sendVars,
                   listeners, lpc, lsvc, lres, ltask, lReady, lconn, rc, rcClosed, qtask>>
    /\ UNCHANGED <<rcall, ecall>>

\* second half: every t.Wait() has returned, conn.Close(), and the tomb is dead
SupFinish ==
    /\ Running
    /\ supPc = "wait"
    /\ \A c \in killed : ltask[c] = "dead"
    /\ hstate' = [hstate EXCEPT ![conn] = "closed"]
    /\ tombDying' = TRUE
    /\ supPc' = "dead"
    /\ UNCHANGED <<conn, rq, connReady, fired, killed, crashed, sendVars, listenVars>>
    /\ UNCHANGED <<rcall, ecall>>

\* faulty variant: StopListening removes the entry itself instead of leaving it to the task
StopListening_Deletes(v) ==
    /\ Running
    /\ listeners[v] # 0
    /\ ~tmDying[listeners[v]]
    /\ tmDying' = [tmDying EXCEPT ![listeners[v]] = TRUE]
    /\ listeners' = [listeners EXCEPT ![v] = 0]
    /\ UNCHANGED <<supVars, sendVars, lpc, lsvc, lres, ltask, lReady, lconn,
                   rc, rcClosed, qtask>>
    /\ UNCHANGED <<rcall, ecall>>

\* StopListening(v): kill the tomb registered for v (its tm.Wait() only delays the
\* caller, who owns no state of the transport)
StopListening(v) ==
    /\ Running
    /\ listeners[v] # 0
    /\ ~tmDying[listeners[v]]
    /\ tmDying' = [tmDying EXCEPT ![listeners[v]] = TRUE]
    /\ UNCHANGED <<supVars, sendVars, listeners, lpc, lsvc, lres, ltask, lReady, lconn,
                   rc, rcClosed, qtask>>
    /\ UNCHANGED <<rcall, ecall>>

\* ------------------------------------------------------------------ Listen
\* faulty variant: the duplicate check is missing: the second Listen replaces the entry
ListenAlready_Overwrites(c, v) ==
    /\ Running
    /\ lpc[c] = "idle"
    /\ listeners[v] # 0
    /\ lsvc' = [lsvc EXCEPT ![c] = v]
    /\ listeners' = [listeners EXCEPT ![v] = c]
    /\ lres' = [lres EXCEPT ![c] = "ErrAlreadyListening"]
    /\ lpc' = [lpc EXCEPT ![c] = "done"]
    /\ UNCHANGED <<supVars, sendVars, ltask, lReady, lconn, tmDying, rc, rcClosed, qtask>>
    /\ UNCHANGED <<rcall, ecall>>

\* Listen, an entry exists: return ErrAlreadyListening
ListenAlready(c, v) ==
    /\ Running
    /\ lpc[c] = "idle"
    /\ listeners[v] # 0
    /\ lsvc' = [lsvc EXCEPT ![c] = v]
    /\ lres' = [lres EXCEPT ![c] = "ErrAlreadyListening"]
    /\ lpc' = [lpc EXCEPT ![c] = "done"]
    /\ UNCHANGED <<supVars, sendVars, listeners, ltask, lReady, lconn, tmDying, rc, rcClosed, qtask>>
    /\ UNCHANGED <<rcall, ecall>>

\* Listen, no entry: t.listeners[cn] = tm
ListenRegister(c, v) ==
    /\ Running
    /\ lpc[c] = "idle"
    /\ listeners[v] = 0
    /\ lsvc' = [lsvc EXCEPT ![c] = v]
    /\ listeners' = [listeners EXCEPT ![v] = c]
    /\ lpc' = [lpc EXCEPT ![c] = "spawn"]
    /\ UNCHANGED <<supVars, sendVars, lres, ltask, lReady, lconn, tmDying, rc, rcClosed, qtask>>
    /\ UNCHANGED <<rcall, ecall>>

\* tm.Go(...) starts the listener goroutine; the caller blocks on <-errChan
ListenSpawn(c) ==
    /\ Running
    /\ lpc[c] = "spawn"
    /\ ltask' = [ltask EXCEPT ![c] = "started"]
    /\ lpc' = [lpc EXCEPT ![c] = "wait"]
    /\ UNCHANGED <<supVars, sendVars, listeners, lsvc, lres, lReady, lconn, tmDying,
                   rc, rcClosed, qtask>>
    /\ UNCHANGED <<rcall, ecall>>

\* the listener goroutine reaches t.Ready() as the first user of the transport:
\* runOnce.Do(t.run)
ListenerRunOnce(c) ==
    /\ Running
    /\ ltask[c] = "started"
    /\ supPc = "idle"
    /\ runOnce
    /\ UNCHANGED <<tombDying, rq, connReady, fired, killed, crashed, sendVars, listenVars>>
    /\ UNCHANGED <<rcall, ecall>>

\* the listener goroutine enters its first select: t.Ready() (the transport has
\* been started) reads the current broadcast under connM.RLock
ListenerReady(c) ==
    /\ Running
    /\ ltask[c] = "started"
    /\ supPc # "idle"
    /\ lReady' = [lReady EXCEPT ![c] = connReady]
    /\ ltask' = [ltask EXCEPT ![c] = "select"]
    /\ UNCHANGED <<supVars, sendVars, listeners, lpc, lsvc, lres, lconn, tmDying,
                   rc, rcClosed, qtask>>
    /\ UNCHANGED <<rcall, ecall>>

\* The deferred function of the listener goroutine: delete(t.listeners, cn),
\* close(rc), close(errChan).  A caller still blocked on <-errChan receives the
\* zero value, a nil error.
ListenerExit(c) ==
    /\ listeners' = [listeners EXCEPT ![lsvc[c]] = 0]
    /\ rcClosed' = [rcClosed EXCEPT ![c] = TRUE]
    /\ ltask' = [ltask EXCEPT ![c] = "dead"]
    /\ IF lpc[c] = "wait"
       THEN /\ lres' = [lres EXCEPT ![c] = "nil"]
            /\ lpc' = [lpc EXCEPT ![c] = "done"]
       ELSE UNCHANGED <<lres, lpc>>

\* errChan <- err: the rendezvous with return <-errChan; Listen returns err while
\* the goroutine has yet to return and run its deferred function
ListenerSendErr(c, err) ==
    /\ lres' = [lres EXCEPT ![c] = err]
    /\ lpc' = [lpc EXCEPT ![c] = "done"]
    /\ ltask' = [ltask EXCEPT ![c] = "exiting"]

\* either select, case <-t.tomb.Dying(): return nil
ListenerTombDying(c) ==
    /\ Running
    /\ ltask[c] \in {"select", "loop"}
    /\ tombDying
    /\ ListenerExit(c)
    /\ UNCHANGED <<supVars, sendVars, lsvc, lReady, lconn, tmDying, rc, qtask>>
    /\ UNCHANGED <<rcall, ecall>>

\* either select, case <-tm.Dying(): return nil
ListenerTmDying(c) ==
    /\ Running
    /\ ltask[c] \in {"select", "loop"}
    /\ tmDying[c]
    /\ ListenerExit(c)
    /\ UNCHANGED <<supVars, sendVars, lsvc, lReady, lconn, tmDying, rc, qtask>>
    /\ UNCHANGED <<rcall, ecall>>

\* first select, case <-timeout.C: errChan <- transport.ErrTimeout
ListenerTimeout(c) ==
    /\ Running
    /\ ltask[c] = "select"
    /\ ~tombDying /\ ~tmDying[c] /\ lReady[c] \notin fired
    /\ ListenerSendErr(c, "ErrTimeout")
    /\ UNCHANGED <<supVars, sendVars, listeners, lsvc, lReady, lconn, tmDying, rc, rcClosed, qtask>>
    /\ UNCHANGED <<rcall, ecall>>

\* first select, case <-t.Ready(); then t.connection().Consume(cn) and errChan <- err
ListenerConsume(c) ==
    /\ Running
    /\ ltask[c] = "select"
    /\ lReady[c] \in fired
    /\ \E err \in ConsumeOutcomes(conn) :
         IF err = "nil"
         THEN /\ lconn' = [lconn EXCEPT ![c] = conn]
              /\ ltask' = [ltask EXCEPT ![c] = "loop"]
              /\ lres' = [lres EXCEPT ![c] = "nil"]
              /\ lpc' = [lpc EXCEPT ![c] = "done"]
              /\ UNCHANGED <<listeners, rcClosed>>
         ELSE /\ ListenerSendErr(c, err)
              /\ UNCHANGED <<lconn, listeners, rcClosed>>
    /\ UNCHANGED <<supVars, sendVars, lsvc, lReady, tmDying, rc, qtask>>
    /\ UNCHANGED <<rcall, ecall>>

\* after errChan <- err: return nil, and the deferred function runs
ListenerReturn(c) ==
    /\ Running
    /\ ltask[c] = "exiting"
    /\ ListenerExit(c)
    /\ UNCHANGED <<supVars, sendVars, lsvc, lReady, lconn, tmDying, rc, qtask>>
    /\ UNCHANGED <<rcall, ecall>>

\* loop, case delivery, ok := <-deliveryChan with ok: go t.handleReqDelivery(delivery, rc)
ListenerRecv(c, k, d) ==
    /\ Running
    /\ ltask[c] = "loop"
    /\ StreamOpen(lconn[c])
    /\ qtask[k].st = "free"
    /\ \A j \in ReqTasks : j < k => qtask[j].st # "free"
    /\ qtask' = [qtask EXCEPT ![k] = [st |-> "run", d |-> d, ch |-> c]]
    /\ UNCHANGED <<supVars, sendVars, listeners, lpc, lsvc, lres, ltask, lReady, lconn,
                   tmDying, rc, rcClosed>>
    /\ UNCHANGED <<rcall, ecall>>

\* loop, case delivery, ok := <-deliveryChan with !ok: return nil
ListenerStreamClosed(c) ==
    /\ Running
    /\ ltask[c] = "loop"
    /\ ~StreamOpen(lconn[c])
    /\ ListenerExit(c)
    /\ UNCHANGED <<supVars, sendVars, lsvc, lReady, lconn, tmDying, rc, qtask>>
    /\ UNCHANGED <<rcall, ecall>>

\* ------------------------------------------------------------------ handleReqDelivery
\* the Content-Encoding switch
handleReqDelivery(k) ==
    /\ Running
    /\ qtask[k].st = "run"
    /\ qtask' = [qtask EXCEPT ![k].st =
                    IF qtask[k].d.ContentEncoding = "request" THEN "offer" ELSE "dropped"]
    /\ UNCHANGED <<supVars, sendVars, listeners, lpc, lsvc, lres, ltask, lReady, lconn,
                   tmDying, rc, rcClosed>>
    /\ UNCHANGED <<rcall, ecall>>

\* select, case reqChan <- req, the channel is open and has room
handleReqSend(k) ==
    /\ Running
    /\ qtask[k].st = "offer"
    /\ ~rcClosed[qtask[k].ch]
    /\ Len(rc[qtask[k].ch]) < ChanCap
    /\ rc' = [rc EXCEPT ![qtask[k].ch] = Append(@, deliveryToMessage(qtask[k].d))]
    /\ qtask' = [qtask EXCEPT ![k].st = "sent"]
    /\ UNCHANGED <<supVars, sendVars, listeners, lpc, lsvc, lres, ltask, lReady, lconn,
                   tmDying, rcClosed>>
    /\ UNCHANGED <<rcall, ecall>>

\* select, case <-timeout.C: the channel stayed full for chanSendTimeout
handleReqTimeout(k) ==
    /\ Running
    /\ qtask[k].st = "offer"
    /\ ~rcClosed[qtask[k].ch]
    /\ Len(rc[qtask[k].ch]) >= ChanCap
    /\ qtask' = [qtask EXCEPT ![k].st = "timedout"]
    /\ UNCHANGED <<supVars, sendVars, listeners, lpc, lsvc, lres, ltask, lReady, lconn,
                   tmDying, rc, rcClosed>>
    /\ UNCHANGED <<rcall, ecall>>

\* select, case reqChan <- req on a closed channel: the goroutine panics
handleReqPanic(k) ==
    /\ Running
    /\ qtask[k].st = "offer"
    /\ rcClosed[qtask[k].ch]
    /\ crashed' = "panic"
    /\ qtask' = [qtask EXCEPT ![k].st = "panicked"]
    /\ UNCHANGED <<supPc, tombDying, conn, hstate, rq, connReady, fired, killed, sendVars,
                   listeners, lpc, lsvc, lres, ltask, lReady, lconn, tmDying, rc, rcClosed>>
    /\ UNCHANGED <<rcall, ecall>>

\* the owner of rc receives a request
UserRecv(c) ==
    /\ Running
    /\ rc[c] # <<>>
    /\ rc' = [rc EXCEPT ![c] = Tail(@)]
    /\ UNCHANGED <<supVars, sendVars, listeners, lpc, lsvc, lres, ltask, lReady, lconn,
                   tmDying, rcClosed, qtask>>
    /\ UNCHANGED <<rcall, ecall>>

\* ------------------------------------------------------------------ Respond
\* Respond up to its select: set Content-Encoding, start the timer.
\* replyTo is req.Headers()["X-Rabbit-ReplyTo"] ("" when the request has none).
Respond(r, replyTo) ==
    /\ Running
    /\ rcall[r].pc = "idle"
    /\ rcall' = [rcall EXCEPT ![r] = [NoRespond EXCEPT !.pc = "called", !.replyTo = replyTo]]
    /\ UNCHANGED <<supVars, sendVars, listenVars, ecall>>

\* Respond reaches t.Ready() as the first user of the transport: runOnce.Do(t.run)
RespondRunOnce(r) ==
    /\ Running
    /\ rcall[r].pc = "called"
    /\ supPc = "idle"
    /\ runOnce
    /\ UNCHANGED <<tombDying, rq, connReady, fired, killed, crashed, sendVars, listenVars,
                   rcall, ecall>>

\* Respond enters its select: t.Ready() (the transport has been started) reads the
\* current broadcast under connM.RLock
RespondReady(r) ==
    /\ Running
    /\ rcall[r].pc = "called"
    /\ supPc # "idle"
    /\ rcall' = [rcall EXCEPT ![r].pc = "select", ![r].ready = connReady]
    /\ UNCHANGED <<supVars, sendVars, listenVars, ecall>>

\* select, case <-t.Ready(); then return t.connection().Publish("", replyTo, ...)
RespondPublish(r) ==
    /\ Running
    /\ rcall[r].pc = "select"
    /\ rcall[r].ready \in fired
    /\ \E err \in PublishOutcomes(conn) :
         rcall' = [rcall EXCEPT ![r].pc = "done", ![r].err = err,
                                ![r].pub = [key |-> rcall[r].replyTo, h |-> conn]]
    /\ UNCHANGED <<supVars, sendVars, listenVars, ecall>>

\* select, case <-t.tomb.Dying(): return tomb.ErrDying
RespondDying(r) ==
    /\ Running
    /\ rcall[r].pc = "select"
    /\ tombDying
    /\ rcall' = [rcall EXCEPT ![r].pc = "done", ![r].err = "ErrDying"]
    /\ UNCHANGED <<supVars, sendVars, listenVars, ecall>>

\* select, case <-timeout.C: return transport.ErrTimeout
RespondTimeout(r) ==
    /\ Running
    /\ rcall[r].pc = "select"
    /\ ~tombDying /\ rcall[r].ready \notin fired
    /\ rcall' = [rcall EXCEPT ![r].pc = "done", ![r].err = "ErrTimeout"]
    /\ UNCHANGED <<supVars, sendVars, listenVars, ecall>>

\* ------------------------------------------------------------------ Endpoint (package server)
EndpointNames == {"epA", "epB"}
\* e.Request: unset, or a pointer to a message type T with one varint field
Prototypes == {"nil", "T"}
Endpoints == [Name : EndpointNames, Request : Prototypes]

\* payloads in protobuf wire format: a key (field number * 8 + wire type) and a
\* varint value per field
Payloads == {<<>>, <<8, 1>>, <<8, 2>>, <<8>>, <<15, 1>>}
Requests == [service : Services, payload : Payloads]

\* what the user handler returns when it is invoked
HandlerErrors ==
    {Err(FALSE, "", "boom", "", "")}
       \cup {Err(TRUE, "NotFound", "missing", v, n) : v \in {"", "svcDeep"}, n \in {"", "epDeep"}}
HandlerOutcomes ==
    {[rsp |-> "reply", err |-> Nil]} \cup {[rsp |-> "nil", err |-> x] : x \in HandlerErrors}

\* proto.Unmarshal into a fresh T: fails on a truncated field and on a wire type
\* other than varint; a later occurrence of field 1 overrides an earlier one
RECURSIVE decodeFields(_, _)
decodeFields(p, v) ==
    IF p = <<>> THEN [ok |-> TRUE, body |-> <<[field1 |-> v]>>]
    ELSE IF p[1] % 8 # 0 \/ Len(p) < 2 THEN [ok |-> FALSE, body |-> <<>>]
    ELSE decodeFields(SubSeq(p, 3, Len(p)), IF p[1] \div 8 = 1 THEN p[2] ELSE v)

\* cloneTypedPtr(e.Request) is a zero T; proto.Unmarshal(req.Payload(), body)
Unmarshal(p) == decodeFields(p, 0)

\* errors.Wrap: an *errors.Error is returned as it is; any other error becomes a
\* new *errors.Error carrying its message, with a code chosen by the library and
\* an empty PrivateContext
WrapCodes == {"Unknown", "InternalService", "BadRequest"}
Wrap(err) ==
    IF err.typed THEN {err}
    ELSE {Err(TRUE, c, err.message, "", "") : c \in WrapCodes}

\* enrichError: wrap, then set service and endpoint of the private context where unset
enrichError(err, req, e) ==
    {[w EXCEPT !.service = IF @ = "" THEN req.service ELSE @,
               !.endpoint = IF @ = "" THEN e.Name ELSE @] : w \in Wrap(err)}

\* Endpoint.HandleRequest(req) of endpoint e, with a handler that returns h
HandleRequest(e, req, h) ==
    /\ LET dec == Unmarshal(req.payload)
           body == IF e.Request = "nil" THEN <<>> ELSE dec.body
           outs ==
              IF e.Request # "nil" /\ ~dec.ok
              THEN {[called |-> FALSE, body |-> <<>>, rsp |-> "nil", err |-> w] :
                       w \in Wrap(Err(FALSE, "", "Could not unmarshal request", "", ""))}
              ELSE IF h.err = Nil
              THEN {[called |-> TRUE, body |-> body, rsp |-> h.rsp, err |-> Nil]}
              ELSE {[called |-> TRUE, body |-> body, rsp |-> h.rsp, err |-> w] :
                       w \in enrichError(h.err, req, e)}
       IN \E out \in outs : ecall' = [e |-> e, req |-> req, h |-> h, out |-> out]
    /\ UNCHANGED <<supVars, sendVars, listenVars, rcall>>

EndpointNext == \E e \in Endpoints, req \in Requests, h \in HandlerOutcomes : HandleRequest(e, req, h)

\* the endpoint dispatcher alone
EndpointSpec == Init /\ [][EndpointNext]_vars

\* ------------------------------------------------------------------ specifications
\* the connection life cycle while nobody requests teardown
SupNext ==
    \/ InitDone
    \/ SessionLost
    \/ SupSelectInit
    \/ SupSelectTimeout
    \/ SupDeclare
    \/ SupConsume
    \/ SupFire
    \/ SupDeliveriesClosed
    \/ SupReconnectClose
    \/ initConn
    \/ killListeners
    \/ SupFinish

\* teardown: t.tomb.Kill and the cases that observe it
TeardownNext ==
    \/ Teardown
    \/ SupSelectDying
    \/ SupServeDying
    \/ SupAfterDying

SendNextOf(S) ==
    \/ \E s \in S : SendUuidError(s)
    \/ \E s \in S, id \in 0..NIds : SendRegister(s, id)
    \/ \E s \in S : SendRunOnce(s)
    \/ \E s \in S : SendReady(s)
    \/ \E s \in S : SendTimerFire(s)
    \/ \E s \in S : SendReadyTimeout(s)
    \/ \E s \in S : SendPublish(s)
    \/ \E s \in S : SendRecv(s)
    \/ \E s \in S : SendRspTimeout(s)

RspNext ==
    \/ \E k \in RspTasks : \E d \in RspDeliveries(k) : SupRecvDelivery(k, d)
    \/ \E k \in RspTasks : handleRspDelivery(k)
    \/ \E k \in RspTasks : handleRspOffer(k)

ListenNext ==
    \/ \E c \in Calls, v \in Services : ListenAlready(c, v)
    \/ \E c \in Calls, v \in Services : ListenRegister(c, v)
    \/ \E c \in Calls : ListenSpawn(c)
    \/ \E c \in Calls : ListenerRunOnce(c)
    \/ \E c \in Calls : ListenerReady(c)
    \/ \E c \in Calls : ListenerTombDying(c)
    \/ \E c \in Calls : ListenerTmDying(c)
    \/ \E c \in Calls : ListenerTimeout(c)
    \/ \E c \in Calls : ListenerConsume(c)
    \/ \E c \in Calls : ListenerStreamClosed(c)
    \/ \E c \in Calls : ListenerReturn(c)
    \/ \E v \in Services : StopListening(v)

ReqNext ==
    \/ \E c \in Calls, k \in ReqTasks : \E d \in ReqDeliveries(k) : ListenerRecv(c, k, d)
    \/ \E k \in ReqTasks : handleReqDelivery(k)
    \/ \E k \in ReqTasks : handleReqSend(k)
    \/ \E k \in ReqTasks : handleReqTimeout(k)
    \/ \E k \in ReqTasks : handleReqPanic(k)
    \/ \E c \in Calls : UserRecv(c)

\* the send path and the reply consumer, no teardown requested
SendSpec == Init /\ [][SupNext \/ SendNextOf(Senders) \/ RspNext]_vars

\* the listen path, with teardown
ListenStep == SupNext \/ TeardownNext \/ ListenNext \/ ReqNext
ListenSpec == Init /\ [][ListenStep]_vars

RespondNext ==
    \/ \E r \in Responders, a \in {"", DirectReplyQueue} : Respond(r, a)
    \/ \E r \in Responders : RespondRunOnce(r)
    \/ \E r \in Responders : RespondReady(r)
    \/ \E r \in Responders : RespondPublish(r)
    \/ \E r \in Responders : RespondDying(r)
    \/ \E r \in Responders : RespondTimeout(r)

\* the respond path, with teardown
RespondSpec == Init /\ [][SupNext \/ TeardownNext \/ RespondNext]_vars

\* the whole transport and the endpoint above it
Next ==
    \/ Ready \/ SupNext \/ TeardownNext \/ SendNextOf(Senders) \/ RspNext
    \/ ListenNext \/ ReqNext \/ RespondNext \/ EndpointNext
Spec == Init /\ [][Next]_vars

\* ------------------------------------------------------------------ properties
\* C1: whenever a Send that registered a rendezvous returns, by whatever exit
\* path, inflightReqs holds no entry for its request id in the state it returns to.
C1_SendRemovesEntry ==
    [][\A s \in Senders :
         (spc[s] \in {"wait_ready", "wait_rsp"} /\ spc'[s] = "done")
            => inflightReqs'[sid[s]] = 0]_vars

\* one Send has returned with a response and another with a timeout
C1_Witness ==
    \E s, u \in Senders :
       /\ spc[s] = "done" /\ result[s].err = "nil" /\ inflightReqs[sid[s]] = 0
       /\ spc[u] = "done" /\ result[u].err = "ErrTimeout" /\ inflightReqs[sid[u]] = 0

\* C2: a response with correlation id I is only ever handed to the rendezvous of a
\* Send whose request id is I, and a Send only returns a response carrying its own id.
C2_NoCrossTalk ==
    /\ \A k \in RspTasks :
          rtask[k].st \in {"offer", "delivered"} => sid[rtask[k].ch] = rtask[k].d.CorrelationId
    /\ \A s \in Senders :
          /\ \A i \in 1..Len(rspChan[s]) : rspChan[s][i].id = sid[s]
          /\ \A i \in 1..Len(result[s].rsp) : result[s].rsp[i].id = sid[s]

\* two Sends with distinct ids have both returned a response
C2_Witness ==
    \E s, u \in Senders :
       /\ sid[s] # sid[u]
       /\ result[s].err = "nil" /\ result[s].rsp # <<>>
       /\ result[u].err = "nil" /\ result[u].rsp # <<>>

\* C3: a Send that has published and leaves its second select before its timer
\* has fired returns, without error, the Response made from a delivery that
\* carried its request id I, Content-Encoding "response" and body B: id I, payload B.
C3_RoundTrip ==
    [][\A s \in Senders :
         (spc[s] = "wait_rsp" /\ ~timerFired[s] /\ spc'[s] = "done")
            => /\ result'[s].err = "nil"
               /\ Len(result'[s].rsp) = 1
               /\ \E k \in RspTasks :
                     /\ rtask[k].st = "delivered"
                     /\ rtask[k].d.CorrelationId = sid[s]
                     /\ rtask[k].d.ContentEncoding = "response"
                     /\ result'[s].rsp[1].id = sid[s]
                     /\ result'[s].rsp[1].payload = rtask[k].d.Body
                     /\ result'[s].rsp[1].headers["Content-Encoding"] = "response"]_vars

\* a Send returned the payload of the second delivery before its timer fired
C3_Witness ==
    \E s \in Senders :
       /\ spc[s] = "done" /\ result[s].err = "nil"
       /\ result[s].rsp = <<[id |-> sid[s],
                             headers |-> ("Content-Encoding" :> "response")
                                            @@ ("X-Rabbit-ReplyTo" :> ""),
                             payload |-> Bodies[2]]>>

\* C4 (as claimed): no Send ever returns the error of a Publish on a handle that
\* is closed, has lost its session, or is not yet initialised.
C4_NoConnectionError ==
    \A s \in Senders : result[s].err \notin {"ErrClosed", "ErrNotInitialised"}

\* C10: handling a reply-queue delivery whose Content-Encoding is not "response"
\* changes neither inflightReqs nor any rendezvous nor any Send, whatever its
\* correlation id.
C10_WrongEncodingDropped ==
    [][\A k \in RspTasks :
         (rtask[k].st = "run" /\ rtask[k].d.ContentEncoding # "response"
             /\ rtask'[k].st # "run")
            => /\ rtask'[k].st = "dropped"
               /\ UNCHANGED <<inflightReqs, rspChan, spc, result>>]_vars

\* a delivery with the id of a Send was dropped for its encoding, and the Send
\* then returned the response of the next delivery
C10_Witness ==
    \E s \in Senders :
       /\ rtask[1].st = "dropped" /\ rtask[1].d.CorrelationId = sid[s]
       /\ rtask[2].st = "delivered" /\ rtask[2].d.CorrelationId = sid[s]
       /\ result[s].err = "nil" /\ result[s].rsp[1].payload = Bodies[2]

\* a Listen call that installed its tomb in t.listeners
Registered(c) ==
    \/ lpc[c] \in {"spawn", "wait"}
    \/ lpc[c] = "done" /\ lres[c] # "ErrAlreadyListening"

\* the listener of call c has stopped: entry removed, caller channel closed
Stopped(c) == ltask[c] = "dead" /\ rcClosed[c] /\ listeners[lsvc[c]] # c

\* C5 (as claimed): once teardown is requested, the transport does not come to
\* rest (no step of any task possible, the process not ended by os.Exit) before
\* every registered listener has stopped with its channel closed and its entry
\* removed, and every hand-off task has finished.
C5_TeardownDrains ==
    (tombDying /\ crashed # "exit" /\ ~ENABLED ListenStep)
       => /\ \A c \in Calls : Registered(c) => Stopped(c)
          /\ \A k \in ReqTasks : qtask[k].st \in {"free", "sent", "dropped", "timedout"}

\* C6 (as claimed): after a teardown request the run loop exits only into a state in which listeners is
\* empty, every registered listener has stopped with its caller channel closed,
\* and the handle is closed.
C6_ExitMeansDrained ==
    [][(tombDying /\ supPc # "dead" /\ supPc' = "dead")
          => /\ \A v \in Services : listeners'[v] = 0
             /\ \A c \in Calls : Registered(c)' => Stopped(c)'
             /\ hstate'[conn'] = "closed"]_vars

\* C7 (as claimed): a listener that consumed from an earlier handle is, after the
\* reconnect and as long as neither teardown nor its cancellation was requested,
\* still registered with its caller channel open.
C7_ReconnectKeepsListeners ==
    \A c \in Calls :
       (lconn[c] # 0 /\ lconn[c] < conn /\ ~tombDying /\ ~tmDying[c]
           /\ supPc \in {"select", "lr_declare", "lr_consume", "lr_fire", "serve"})
          => (listeners[lsvc[c]] = c /\ ~rcClosed[c])

\* C7 (amended): the reconnect steps of the run loop change no listener entry, no
\* listener tomb, no listener goroutine and no caller channel; a listener tomb is
\* killed by the run loop only in its exit path; and a consuming listener stops
\* only when teardown or its cancellation was requested or its own delivery
\* stream is closed.
C7_ReconnectStepsSpareListeners ==
    [][/\ (supPc \in {"serve", "after_lr", "reinit"} /\ supPc' # supPc
              /\ supPc' \in {"after_lr", "reinit", "select"})
             => UNCHANGED <<listeners, tmDying, ltask, rcClosed, rc, lres>>
       /\ \A c \in Calls :
             (ltask[c] = "loop" /\ ltask'[c] # "loop")
                => (tombDying \/ tmDying[c] \/ ~StreamOpen(lconn[c]))
       /\ (supPc' # supPc /\ tmDying' # tmDying) => supPc = "kill"]_vars

\* the run loop has reconnected while a listener that consumed from the old
\* handle is still registered and consuming
C7_Witness ==
    \E c \in Calls :
       /\ conn = 2 /\ supPc = "select"
       /\ lconn[c] = 1 /\ ltask[c] = "loop"
       /\ listeners[lsvc[c]] = c /\ ~rcClosed[c] /\ ~tmDying[c]

\* C8: a Listen on a service that has an entry returns ErrAlreadyListening, and the
\* refusing step changes no entry, no tomb, no listener goroutine and no channel;
\* the channel passed to a refused Listen is never sent on and never closed.
C8_DuplicateRefused ==
    /\ [](\A c \in Calls :
             lres[c] = "ErrAlreadyListening"
                => (~rcClosed[c] /\ rc[c] = <<>> /\ ltask[c] = "none"
                      /\ \A k \in ReqTasks : qtask[k].ch # c))
    /\ [][\A c \in Calls :
             (lpc[c] = "idle" /\ lpc'[c] # "idle" /\ listeners[lsvc'[c]] # 0)
                => /\ lres'[c] = "ErrAlreadyListening"
                   /\ lpc'[c] = "done"
                   /\ UNCHANGED <<listeners, tmDying, ltask, rc, rcClosed, qtask>>]_vars

\* the second Listen on the service was refused; the first listener is still
\* registered and consuming and its channel holds a request
C8_Witness ==
    /\ lres[2] = "ErrAlreadyListening" /\ lsvc[2] = lsvc[1]
    /\ listeners[lsvc[1]] = 1 /\ ltask[1] = "loop" /\ ~tmDying[1]
    /\ rc[1] # <<>> /\ ~rcClosed[1]
    /\ rc[2] = <<>> /\ ~rcClosed[2]

\* C9 (as claimed): Listen returns nil only if its listener goroutine began
\* consuming from the service queue.
C9_NilMeansConsuming ==
    \A c \in Calls : lres[c] = "nil" => lconn[c] # 0

\* C11: once the timer of a Send has fired, a Send whose readiness broadcast has
\* not fired, or that has published and has no response in its rendezvous, can
\* return and returns ErrTimeout with no Response; the timer that fired during
\* the wait for readiness is still fired in the wait for the reply.
C11_TimeoutBoundsBothWaits ==
    /\ [](\A s \in Senders :
             (Running /\ timerFired[s]
                 /\ \/ spc[s] = "wait_ready" /\ sReady[s] \notin fired
                    \/ spc[s] = "wait_rsp" /\ rspChan[s] = <<>>)
                => ENABLED (SendReadyTimeout(s) \/ SendRspTimeout(s)))
    /\ [][\A s \in Senders :
             /\ (timerFired[s] /\ spc'[s] # spc[s]
                    /\ \/ spc[s] = "wait_ready" /\ sReady[s] \notin fired
                       \/ spc[s] = "wait_rsp" /\ rspChan[s] = <<>>)
                   => (spc'[s] = "done" /\ result'[s] = [err |-> "ErrTimeout", rsp |-> <<>>])
             /\ (timerFired[s] /\ spc[s] = "wait_ready" /\ spc'[s] = "wait_rsp")
                   => timerFired'[s]]_vars

\* one Send timed out waiting for a broadcast that never fired; another published
\* with its timer already fired and returned ErrTimeout from the wait for the reply
C11_Witness ==
    \E s, u \in Senders :
       /\ result[s] = [err |-> "ErrTimeout", rsp |-> <<>>] /\ sReady[s] \notin fired
       /\ result[u] = [err |-> "ErrTimeout", rsp |-> <<>>] /\ sReady[u] \in fired
       /\ \A k \in RspTasks : rtask[k].st = "free"

\* C12 (as claimed): a Respond whose request carries no X-Rabbit-ReplyTo address
\* and that got past its wait for readiness returns ErrNoReplyTo and has called
\* Publish with no routing key.
C12_NoReplyToSurfaced ==
    \A r \in Responders :
       (rcall[r].pc = "done" /\ rcall[r].replyTo = ""
           /\ rcall[r].err \notin {"ErrTimeout", "ErrDying"})
          => (rcall[r].err = "ErrNoReplyTo" /\ rcall[r].pub = NoPublish)

\* C13 (as claimed): when the payload cannot be decoded into a fresh value of the
\* request prototype, the handler is not invoked and HandleRequest returns a
\* BadRequest error "Could not unmarshal request" whose private context names the
\* service of the request and the endpoint.
C13_DecodeFailureEnriched ==
    (ecall # NoCall /\ ecall.e.Request # "nil" /\ ~Unmarshal(ecall.req.payload).ok)
       => /\ ~ecall.out.called
          /\ ecall.out.err.code = "BadRequest"
          /\ ecall.out.err.message = "Could not unmarshal request"
          /\ ecall.out.err.service = ecall.req.service
          /\ ecall.out.err.endpoint = ecall.e.Name

\* C14 (as claimed): whenever a Send gets past its wait for readiness and
\* publishes, the handle it publishes on is the one that was current together
\* with the broadcast it observed, or at least one whose own broadcast has fired.
C14_PublishOnReadyHandle ==
    [][\A s \in Senders :
         (spc[s] = "wait_ready" /\ spc'[s] # "wait_ready" /\ result'[s].err # "ErrTimeout")
            => (sReady[s] = connReady \/ connReady \in fired)]_vars

\* C15: a readiness broadcast is closed only by the reply consumer, only the
\* current one, and only when the reply queue of the current handle has been
\* declared and is being consumed; while the current broadcast is fired the
\* reply queue of the current handle has been declared and consumed.
C15_FireAfterDeclareConsume ==
    /\ [](connReady \in fired => rq[conn] = "consuming")
    /\ [][fired' # fired
             => /\ supPc = "lr_fire"
                /\ fired' = fired \cup {connReady}
                /\ rq[conn] = "consuming"]_vars

\* the broadcasts of both handles have fired, each after its declare and consume
C15_Witness ==
    /\ fired = {1, 2} /\ conn = 2 /\ connReady = 2
    /\ rq[1] = "consuming" /\ rq[2] = "consuming"

\* C20: the run loop replaces connReady only in initConn and only when the
\* current broadcast has fired, and the broadcast it installs is unfired; the
\* fire step closes a broadcast that was not closed before and no broadcast is
\* ever reopened; a Respond waiting on a broadcast keeps that broadcast across
\* the swap, and none waits on an unfired broadcast that is no longer current.
C20_BroadcastLifecycle ==
    /\ [](/\ \A b \in 1..(connReady - 1) : b \in fired
          /\ \A r \in Responders :
                (rcall[r].pc = "select" /\ rcall[r].ready \notin fired)
                   => rcall[r].ready = connReady)
    /\ [][/\ connReady' # connReady
                => (supPc = "reinit" /\ connReady \in fired /\ connReady' \notin fired')
          /\ (conn' # conn) => connReady' \notin fired'
          /\ (supPc = "lr_fire" /\ supPc' # "lr_fire")
                => (connReady \notin fired /\ fired' = fired \cup {connReady})
          /\ fired \subseteq fired'
          /\ \A r \in Responders :
                (rcall[r].pc = "select" /\ rcall'[r].pc = "select")
                   => rcall'[r].ready = rcall[r].ready]_vars

\* after the swap: a Respond that observed the first broadcast has published, and
\* a Respond that called Ready() after the swap waits on the new, unfired one
C20_Witness ==
    \E r, u \in Responders :
       /\ conn = 2 /\ connReady = 2 /\ fired = {1}
       /\ rcall[r].ready = 1 /\ rcall[r].pc = "done" /\ rcall[r].pub.h = 1
       /\ rcall[u].ready = 2 /\ rcall[u].pc = "select"

\* the listener goroutine of call c has been started and has not returned
Live(c) == ltask[c] \in {"started", "select", "loop", "exiting"}

\* C16 (as claimed): a service has an entry in listeners exactly when a listener
\* goroutine for it is live.
C16_EntryIffLiveTask ==
    \A v \in Services :
       listeners[v] # 0 <=> \E c \in Calls : lsvc[c] = v /\ Live(c)

\* C16 (amended): a service has an entry exactly when a Listen call for it has
\* registered its tomb and the goroutine of that tomb has not returned (it is
\* live, or registered and not yet started), and the entry is that call's; an
\* entry is removed only by the exit of the goroutine it belongs to, and an
\* exiting goroutine removes its own entry and no other.
C16_EntryFromRegistrationToExit ==
    /\ [](\A v \in Services : \A c \in Calls :
             listeners[v] = c <=> (lsvc[c] = v /\ (lpc[c] = "spawn" \/ Live(c))))
    /\ [][/\ \A v \in Services :
                (listeners[v] # 0 /\ listeners'[v] # listeners[v])
                   => (listeners'[v] = 0 /\ Live(listeners[v]) /\ ltask'[listeners[v]] = "dead")
          /\ \A c \in Calls :
                (Live(c) /\ ltask'[c] = "dead")
                   => (listeners[lsvc[c]] = c
                         /\ listeners' = [listeners EXCEPT ![lsvc[c]] = 0])]_vars

\* the first listener of a service has exited and removed its entry; a later
\* Listen on the same service is registered and consuming
C16_Witness ==
    /\ ltask[1] = "dead" /\ lsvc[2] = lsvc[1]
    /\ listeners[lsvc[2]] = 2 /\ ltask[2] = "loop"

\* the handleRspDelivery goroutines that took the rendezvous of Send s
OffersTo(s) ==
    {k \in RspTasks : rtask[k].ch = s /\ rtask[k].st \in {"offer", "delivered", "timedout"}}

\* C17: at most one response is ever offered to the rendezvous of a Send; an
\* offer finds the rendezvous empty, so it does not block, and no hand-off of a
\* response runs into its timeout.
C17_AtMostOneOffer ==
    /\ \A s \in Senders : Cardinality(OffersTo(s)) <= 1
    /\ \A k \in RspTasks :
          /\ rtask[k].st = "offer" => rspChan[rtask[k].ch] = <<>>
          /\ rtask[k].st # "timedout"

\* of two responses carrying the id of one Send, the first was handed to the
\* Send and the second was dropped as unmatched
C17_Witness ==
    \E s \in Senders :
       /\ rtask[1].st = "delivered" /\ rtask[1].ch = s
       /\ rtask[2].st = "unmatched"
       /\ rtask[1].d.CorrelationId = sid[s] /\ rtask[2].d.CorrelationId = sid[s]
       /\ rtask[2].d.ContentEncoding = "response"
       /\ \A u \in Senders \ {s} : spc[u] = "idle"

\* C18 (as claimed): no handleReqDelivery goroutine sends on a caller-owned channel
\* that the listener has closed.
C18_NoSendOnClosedChannel ==
    /\ crashed # "panic"
    /\ \A k \in ReqTasks : qtask[k].st # "panicked"

\* C19 (as claimed): a Send that is still pending and whose entry the reply
\* consumer has not taken is registered in inflightReqs under its id, whatever
\* other Sends register or return.
C19_PendingSendStaysRegistered ==
    \A s \in Senders :
       (spc[s] \in {"registered", "wait_ready", "wait_rsp"} /\ OffersTo(s) = {})
          => inflightReqs[sid[s]] = s
====
